---- MODULE Spec2Model ----
(***************************************************************************)
(* A model of drone-runner-aws:                                            *)
(*   - the live-log Writer of command/delegate/livelog/livelog.go          *)
(*     (caller goroutines running Write and Close, and the background      *)
(*     goroutine start that flushes the pending batch), and                *)
(*   - Engine.Setup of engine/engine.go.                                   *)
(* A byte block is a sequence over Chars; a Line is a record with the      *)
(* fields Number and Message of the Go struct.  A locked section of the    *)
(* Writer (b.Lock() ... b.Unlock()) is one step; the statements outside    *)
(* the lock are steps of their own, so that the goroutines interleave the  *)
(* way the Go scheduler lets them.                                         *)
(***************************************************************************)
EXTENDS Integers, Sequences, FiniteSets, TLC

\* ------------------------------------------------------------------ bounds
\* the byte limit the Writer is configured with (SetLimit)
Limit == 2
\* the bytes all Write calls of one run carry together
MaxBytes == 3
\* the calls (Write, Close) of one run
MaxOps == 3
\* the Write calls of a run with two concurrent callers, and their bytes
MaxConcWrites == 2
MaxConcBytes == 2
\* the longest block of the run that makes one Write call
MaxSplitBytes == 4
\* the instances the provisioning collaborator can hold
MaxInstances == 3
\* the free pooled instances at the start
MaxFree == 1
\* the largest target size of a pool
MaxPoolSize == 2
\* the files a step brings along
MaxFiles == 2
\* the calls and the bytes written when the flush goroutine is scheduled fairly
MaxLiveOps == 2
MaxLiveBytes == 2

\* livelog.go: the default maximum log size in bytes
defaultLimit == 5242880

NL == "\n"
Chars == {"a", NL}

RECURSIVE SeqsUpTo(_)
SeqsUpTo(n) ==
  IF n = 0 THEN {<<>>}
  ELSE LET S == SeqsUpTo(n - 1)
       IN S \cup {Append(s, c) : s \in {x \in S : Len(x) = n - 1}, c \in Chars}

\* the byte blocks a caller may pass to Write
Blocks == SeqsUpTo(IF MaxBytes > MaxSplitBytes THEN MaxBytes ELSE MaxSplitBytes)

\* ------------------------------------------------------- pure functions
\* strings.TrimSuffix(s, "\n")
TrimSuffix(s) ==
  IF Len(s) > 0 /\ s[Len(s)] = NL THEN SubSeq(s, 1, Len(s) - 1) ELSE s

\* strings.Contains(s, "\n")
Contains(s) == \E i \in 1..Len(s) : s[i] = NL

\* strings.SplitAfter(s, "\n"): s cut after each line feed; the piece after
\* the last line feed is part of the result even when it is empty
RECURSIVE SplitAfter(_)
SplitAfter(s) ==
  IF ~Contains(s) THEN <<s>>
  ELSE LET i == CHOOSE k \in 1..Len(s) :
                  s[k] = NL /\ \A j \in 1..(k - 1) : s[j] # NL
       IN <<SubSeq(s, 1, i)>> \o SplitAfter(SubSeq(s, i + 1, Len(s)))

split(p) == IF Contains(TrimSuffix(p)) THEN SplitAfter(p) ELSE <<p>>

\* the sum of len(l.Message) over a list of lines
RECURSIVE SumLen(_)
SumLen(ls) == IF ls = <<>> THEN 0 ELSE Len(Head(ls).Message) + SumLen(Tail(ls))

\* OverLimit with the incoming block's length left out
OverLimit_sizeOnly(sz, p, lim) == sz > lim

\* the loop condition of Write's eviction loop: b.size+len(p) > b.limit
OverLimit(sz, p, lim) == sz + Len(p) > lim

\* EvictSize with the subtraction left out
EvictSize_kept(sz, h) == sz

\* the eviction's b.size -= len(b.history[0].Message)
EvictSize(sz, h) == sz - Len(Head(h).Message)

\* the eviction's b.history = b.history[1:]
Evict(h) == Tail(h)

\* the Line that Write builds for one part
NewLine(n, part) == [Number |-> n, Message |-> part]

\* ------------------------------------------------------------------ state
VARIABLES
  num, size, limit, pending, history, closed, ready,   \* the Writer's fields
  fpc, flines,                                  \* goroutine start: position, flush's lines
  threads, pc, blk, parts, line, isStopped, clines, ret,  \* the callers
  calls,                                        \* the log service's calls, in order
  written, evicted,                             \* every line made; the lines evicted
  opsLeft, bytesLeft, closesDone

wvars == <<num, size, limit, pending, history, closed, ready, fpc, flines,
           threads, pc, blk, parts, line, isStopped, clines, ret,
           calls, written, evicted, opsLeft, bytesLeft, closesDone>>

\* the Engine: the provisioning collaborator's instances and the Setup calls
VARIABLES
  instances, nextId,            \* the instances that exist, by id, with their tags
  spc, sspec, stry, scalls, sargs, sret   \* per Setup call: position, spec, results

\* the Engine: its pools, and one Destroy call
VARIABLES
  pools,                        \* e.opts.Pools: per pool name, PoolSize and InstanceSpec
  dpc, dspec, dcount, dcalls, dret   \* position, spec, poolCount, calls made, result

dvars == <<pools, dpc, dspec, dcount, dcalls, dret>>

\* the Engine: one Run call, its goroutine and the caller's context
VARIABLES
  rpc, rfiles, rvia, rstate, rerr,   \* position, files to upload, select branch, results
  gpc, gerr,                    \* the goroutine of line 381: position, session.Run's error
  ctxDone,                      \* ctx.Done() is closed
  signals                       \* the results of the session.Signal calls

rvars == <<rpc, rfiles, rvia, rstate, rerr, gpc, gerr, ctxDone, signals>>

evars == <<instances, nextId, spc, sspec, stry, scalls, sargs, sret, dvars, rvars>>

vars == <<wvars, evars>>

NoLine == [Number |-> -1, Message |-> <<>>]
NoRet == [op |-> "none", n |-> 0, err |-> "nil"]
AllThreads == {1, 2}

\* an unrecovered panic of one goroutine ends the process
Crashed == \E t \in threads : pc[t] = "panic"

\* New: the Writer's fields after construction, goroutine start running
WriterInit(ths, w, b, lim) ==
  /\ num = 0 /\ size = 0 /\ limit = lim /\ pending = <<>> /\ history = <<>>
  /\ closed = FALSE /\ ready = 0
  /\ fpc = "select" /\ flines = <<>>
  /\ threads = ths
  /\ pc = [t \in AllThreads |-> "idle"]
  /\ blk = [t \in AllThreads |-> <<>>]
  /\ parts = [t \in AllThreads |-> <<>>]
  /\ line = [t \in AllThreads |-> NoLine]
  /\ isStopped = [t \in AllThreads |-> FALSE]
  /\ clines = [t \in AllThreads |-> <<>>]
  /\ ret = [t \in AllThreads |-> NoRet]
  /\ calls = <<>>
  /\ written = <<>> /\ evicted = <<>>
  /\ opsLeft = w /\ bytesLeft = b /\ closesDone = 0

\* ------------------------------------------------------------ the Engine
Setups == {1, 2}
RunnerName == "runner"
PoolNames == {"pool"}
InProgress == "build in progress"
NoId == 0
IpOf(i) == <<"ip", i>>
NoIp == <<"ip", NoId>>

\* a map of tags: a function from the keys it holds to their values
EmptyTags == [k \in {} |-> ""]
Put(m, k, v) == [x \in (DOMAIN m) \cup {k} |-> IF x = k THEN v ELSE m[x]]

\* the Tags a ResourceSpec may come with
UserTags == {EmptyTags, Put(EmptyTags, "team", "x"), Put(EmptyTags, "pool", "other")}

\* the tags of a pooled instance that is free
FreeTags(pool) == Put(Put(Put(EmptyTags, "drone", "drone-runner-aws"), "pool", pool),
                      "creator", RunnerName)

NoSpec == [UsePool |-> FALSE, PoolName |-> "", Tags |-> EmptyTags, ID |-> NoId, IP |-> NoIp]
NoTry == [called |-> FALSE, found |-> FALSE, id |-> NoId, ip |-> NoIp, err |-> "nil"]

EngineInit(k) ==
  /\ instances = [i \in 1..k |-> FreeTags("pool")]
  /\ nextId = k + 1
  /\ spc = [s \in Setups |-> "idle"]
  /\ sspec = [s \in Setups |-> NoSpec]
  /\ stry = [s \in Setups |-> NoTry]
  /\ scalls = [s \in Setups |-> <<>>]
  /\ sargs = [s \in Setups |-> EmptyTags]
  /\ sret = [s \in Setups |-> "none"]

\* e.opts.Pools[name] of a name that has no entry: Go's zero Pool
NoPool == [PoolSize |-> 0, InstanceSpec |-> NoSpec]
NoCount == [called |-> FALSE, n |-> 0, err |-> "nil"]

\* the pool configurations of the Engine: a target size and a template spec
PoolConfigs ==
  {[PoolSize |-> n,
    InstanceSpec |-> [UsePool |-> u, PoolName |-> p, Tags |-> t, ID |-> NoId, IP |-> NoIp]] :
     n \in 0..MaxPoolSize, u \in BOOLEAN, p \in PoolNames, t \in UserTags}

\* New with its Opts: the pools, and no Destroy call yet
DestroyInit(pl) ==
  /\ pools = pl
  /\ dpc = "idle" /\ dspec = NoSpec /\ dcount = NoCount /\ dcalls = <<>> /\ dret = "none"

\* the errors Run meets: none, an *ssh.ExitError with its status, any other
\* error, and ctx.Err()
NoErr == [kind |-> "nil", code |-> 0]
ExitCodes == {1, 17, 255}
ExitError(c) == [kind |-> "exit", code |-> c]
OtherErr == [kind |-> "other", code |-> 0]
CtxErr == [kind |-> "context canceled", code |-> 0]
CallErr(call) == [kind |-> call, code |-> 0]

\* a nil *runtime.State, and no select made yet
NilState == [nil |-> TRUE]
NoVia == [branch |-> "none", cancelled |-> FALSE, returned |-> FALSE]

\* no Run call yet; the step has n files to upload
RunInit(n) ==
  /\ rpc = "idle" /\ rfiles = n /\ rvia = NoVia /\ rstate = NilState /\ rerr = NoErr
  /\ gpc = "none" /\ gerr = NoErr /\ ctxDone = FALSE /\ signals = <<>>

\* an Engine without pools, of which neither Destroy nor Run is called
NoCalls == DestroyInit([p \in PoolNames |-> NoPool]) /\ RunInit(0)

Init == WriterInit({1}, MaxOps, MaxBytes, Limit) /\ EngineInit(0) /\ NoCalls

InitConc == WriterInit({1, 2}, MaxConcWrites, MaxConcBytes, Limit) /\ EngineInit(0) /\ NoCalls

\* one caller goroutine; the flush goroutine will be scheduled fairly
InitLive == WriterInit({1}, MaxLiveOps, MaxLiveBytes, Limit) /\ EngineInit(0) /\ NoCalls

\* a new Writer with the default limit, and one Write call
InitSplit == WriterInit({1}, 1, MaxSplitBytes, defaultLimit) /\ EngineInit(0) /\ NoCalls

\* no Writer in use; the pool holds up to MaxFree free instances
InitEngine ==
  WriterInit({}, 0, 0, defaultLimit) /\ (\E k \in 0..MaxFree : EngineInit(k)) /\ NoCalls

\* the pool holds up to MaxFree free instances and has a configuration
InitDestroy ==
  /\ WriterInit({}, 0, 0, defaultLimit)
  /\ \E k \in 0..MaxFree : EngineInit(k)
  /\ \E c \in PoolConfigs : DestroyInit([p \in PoolNames |-> c])
  /\ RunInit(0)

\* a step with up to MaxFiles files, run on an instance that is set up
InitRun ==
  /\ WriterInit({}, 0, 0, defaultLimit)
  /\ EngineInit(0)
  /\ DestroyInit([p \in PoolNames |-> NoPool])
  /\ \E n \in 0..MaxFiles : RunInit(n)

\* ------------------------------------------------------------ Writer.stop
\* stop, under the lock: the first call closes b.close and sets b.closed
stop == closed' = TRUE

\* ------------------------------------------------------------ Writer.Write
\* line 75-77: the call, fmt.Print and split(p)
Write_begin(t, p) ==
  /\ ~Crashed /\ pc[t] = "idle"
  /\ opsLeft > 0 /\ Len(p) <= bytesLeft
  /\ opsLeft' = opsLeft - 1
  /\ bytesLeft' = bytesLeft - Len(p)
  /\ blk' = [blk EXCEPT ![t] = p]
  /\ parts' = [parts EXCEPT ![t] = split(p)]
  /\ pc' = [pc EXCEPT ![t] = "w_line"]
  /\ ret' = [ret EXCEPT ![t] = NoRet]
  /\ UNCHANGED <<limit, num, size, pending, history, closed, ready, fpc, flines, threads,
                 line, isStopped, clines, calls, written, evicted, closesDone>>
  /\ UNCHANGED evars

\* line 78-83: the Line of the next part, numbered b.num
Write_line(t) ==
  /\ ~Crashed /\ pc[t] = "w_line"
  /\ line' = [line EXCEPT ![t] = NewLine(num, Head(parts[t]))]
  /\ pc' = [pc EXCEPT ![t] = "w_check"]
  /\ UNCHANGED <<limit, num, size, pending, history, closed, ready, fpc, flines, threads,
                 blk, parts, isStopped, clines, ret, calls, written, evicted,
                 opsLeft, bytesLeft, closesDone>>
  /\ UNCHANGED evars

\* line 85-89: one turn of the eviction loop; b.history[0] of an empty
\* history panics (index out of range)
Write_evict(t) ==
  /\ ~Crashed /\ pc[t] = "w_check"
  /\ OverLimit(size, blk[t], limit)
  /\ stop
  /\ IF history = <<>>
       THEN /\ pc' = [pc EXCEPT ![t] = "panic"]
            /\ UNCHANGED <<size, history, evicted>>
       ELSE /\ size' = EvictSize(size, history)
            /\ history' = Evict(history)
            /\ evicted' = Append(evicted, Head(history))
            /\ UNCHANGED pc
  /\ UNCHANGED <<limit, num, pending, ready, fpc, flines, threads, blk, parts, line,
                 isStopped, clines, ret, calls, written,
                 opsLeft, bytesLeft, closesDone>>
  /\ UNCHANGED evars

\* line 91-92: b.size += len(part); b.num++
Write_size(t) ==
  /\ ~Crashed /\ pc[t] = "w_check"
  /\ ~OverLimit(size, blk[t], limit)
  /\ size' = size + Len(line[t].Message)
  /\ num' = num + 1
  /\ pc' = [pc EXCEPT ![t] = "w_stopped"]
  /\ UNCHANGED <<limit, pending, history, closed, ready, fpc, flines, threads, blk, parts,
                 line, isStopped, clines, ret, calls, written, evicted,
                 opsLeft, bytesLeft, closesDone>>
  /\ UNCHANGED evars

\* line 94: b.stopped(), the closed flag read under the lock
Write_stopped(t) ==
  /\ ~Crashed /\ pc[t] = "w_stopped"
  /\ isStopped' = [isStopped EXCEPT ![t] = closed]
  /\ pc' = [pc EXCEPT ![t] = "w_pending"]
  /\ UNCHANGED <<limit, num, size, pending, history, closed, ready, fpc, flines, threads,
                 blk, parts, line, clines, ret, calls, written, evicted,
                 opsLeft, bytesLeft, closesDone>>
  /\ UNCHANGED evars

\* line 94-98: the line joins the pending batch unless the writer is stopped
Write_pending(t) ==
  /\ ~Crashed /\ pc[t] = "w_pending"
  /\ pending' = IF isStopped[t] THEN pending ELSE Append(pending, line[t])
  /\ pc' = [pc EXCEPT ![t] = "w_history"]
  /\ UNCHANGED <<limit, num, size, history, closed, ready, fpc, flines, threads, blk, parts,
                 line, isStopped, clines, ret, calls, written, evicted,
                 opsLeft, bytesLeft, closesDone>>
  /\ UNCHANGED evars

\* Write_history with the append inside the branch of line 94, as the pending
\* batch's append is
Write_history_unlessStopped(t) ==
  /\ ~Crashed /\ pc[t] = "w_history"
  /\ history' = IF isStopped[t] THEN history ELSE Append(history, line[t])
  /\ written' = Append(written, line[t])
  /\ parts' = [parts EXCEPT ![t] = Tail(parts[t])]
  /\ pc' = [pc EXCEPT ![t] = IF Tail(parts[t]) = <<>> THEN "w_ready" ELSE "w_line"]
  /\ UNCHANGED <<limit, num, size, pending, closed, ready, fpc, flines, threads, blk,
                 line, isStopped, clines, ret, calls, evicted,
                 opsLeft, bytesLeft, closesDone>>
  /\ UNCHANGED evars

\* line 100-103: the line joins the history; on to the next part
Write_history(t) ==
  /\ ~Crashed /\ pc[t] = "w_history"
  /\ history' = Append(history, line[t])
  /\ written' = Append(written, line[t])
  /\ parts' = [parts EXCEPT ![t] = Tail(parts[t])]
  /\ pc' = [pc EXCEPT ![t] = IF Tail(parts[t]) = <<>> THEN "w_ready" ELSE "w_line"]
  /\ UNCHANGED <<limit, num, size, pending, closed, ready, fpc, flines, threads, blk,
                 line, isStopped, clines, ret, calls, evicted,
                 opsLeft, bytesLeft, closesDone>>
  /\ UNCHANGED evars

\* Write_ready without the send on b.ready
Write_ready_noSend(t) ==
  /\ ~Crashed /\ pc[t] = "w_ready"
  /\ ret' = [ret EXCEPT ![t] = [op |-> "Write", n |-> Len(blk[t]), err |-> "nil"]]
  /\ pc' = [pc EXCEPT ![t] = "idle"]
  /\ blk' = [blk EXCEPT ![t] = <<>>]
  /\ line' = [line EXCEPT ![t] = NoLine]
  /\ isStopped' = [isStopped EXCEPT ![t] = FALSE]
  /\ UNCHANGED <<limit, num, size, pending, history, closed, ready, fpc, flines, threads,
                 parts, clines, calls, written, evicted,
                 opsLeft, bytesLeft, closesDone>>
  /\ UNCHANGED evars

\* line 105-110: the non-blocking send on b.ready (one slot), return len(p), nil
Write_ready(t) ==
  /\ ~Crashed /\ pc[t] = "w_ready"
  /\ ready' = 1
  /\ ret' = [ret EXCEPT ![t] = [op |-> "Write", n |-> Len(blk[t]), err |-> "nil"]]
  /\ pc' = [pc EXCEPT ![t] = "idle"]
  /\ blk' = [blk EXCEPT ![t] = <<>>]
  /\ line' = [line EXCEPT ![t] = NoLine]
  /\ isStopped' = [isStopped EXCEPT ![t] = FALSE]
  /\ UNCHANGED <<limit, num, size, pending, history, closed, fpc, flines, threads, parts,
                 clines, calls, written, evicted,
                 opsLeft, bytesLeft, closesDone>>
  /\ UNCHANGED evars

\* ------------------------------------------------------------ Writer.Close
\* line 115-116: the call and b.stop(): TRUE for the call that closes the writer
Close_stop(t) ==
  /\ ~Crashed /\ pc[t] = "idle"
  /\ opsLeft > 0
  /\ opsLeft' = opsLeft - 1
  /\ stop
  /\ pc' = [pc EXCEPT ![t] = IF closed THEN "c_upload" ELSE "c_flush"]
  /\ ret' = [ret EXCEPT ![t] = NoRet]
  /\ UNCHANGED <<limit, num, size, pending, history, ready, fpc, flines, threads, blk, parts,
                 line, isStopped, clines, calls, written, evicted,
                 bytesLeft, closesDone>>
  /\ UNCHANGED evars

\* line 117, 146-149: flush's locked section: copy and clear the pending batch
Close_flush(t) ==
  /\ ~Crashed /\ pc[t] = "c_flush"
  /\ clines' = [clines EXCEPT ![t] = pending]
  /\ pending' = <<>>
  /\ pc' = [pc EXCEPT ![t] = "c_batch"]
  /\ UNCHANGED <<limit, num, size, history, closed, ready, fpc, flines, threads, blk, parts,
                 line, isStopped, ret, calls, written, evicted,
                 opsLeft, bytesLeft, closesDone>>
  /\ UNCHANGED evars

\* line 150-154: flush's Batch call, skipped when there are no lines
Close_batch(t) ==
  /\ ~Crashed /\ pc[t] = "c_batch"
  /\ calls' = IF clines[t] = <<>> THEN calls
              ELSE Append(calls, [op |-> "Batch", by |-> "Close", lines |-> clines[t]])
  /\ clines' = [clines EXCEPT ![t] = <<>>]
  /\ pc' = [pc EXCEPT ![t] = "c_upload"]
  /\ UNCHANGED <<limit, num, size, pending, history, closed, ready, fpc, flines, threads,
                 blk, parts, line, isStopped, ret, written, evicted,
                 opsLeft, bytesLeft, closesDone>>
  /\ UNCHANGED evars

\* line 119-122, 131-142: upload sends the history; its error is what Close returns
Close_upload(t) ==
  /\ ~Crashed /\ pc[t] = "c_upload"
  /\ calls' = Append(calls, [op |-> "Upload", by |-> "Close", lines |-> history])
  /\ \E e \in {"nil", "upload failed"} :
       ret' = [ret EXCEPT ![t] = [op |-> "closing", n |-> 0, err |-> e]]
  /\ pc' = [pc EXCEPT ![t] = "c_close"]
  /\ UNCHANGED <<limit, num, size, pending, history, closed, ready, fpc, flines, threads,
                 blk, parts, line, isStopped, clines, written, evicted,
                 opsLeft, bytesLeft, closesDone>>
  /\ UNCHANGED evars

\* line 123-127: client.Close on the log channel, return err
Close_close(t) ==
  /\ ~Crashed /\ pc[t] = "c_close"
  /\ calls' = Append(calls, [op |-> "Close", by |-> "Close", lines |-> <<>>])
  /\ ret' = [ret EXCEPT ![t] = [op |-> "Close", n |-> 0, err |-> ret[t].err]]
  /\ closesDone' = closesDone + 1
  /\ pc' = [pc EXCEPT ![t] = "idle"]
  /\ UNCHANGED <<limit, num, size, pending, history, closed, ready, fpc, flines, threads,
                 blk, parts, line, isStopped, clines, written, evicted,
                 opsLeft, bytesLeft>>
  /\ UNCHANGED evars

\* ------------------------------------------------------------ Writer.start
\* line 188-190: the outer select takes the closed b.close: return
start_closed ==
  /\ ~Crashed /\ fpc = "select" /\ closed
  /\ fpc' = "done"
  /\ UNCHANGED <<limit, num, size, pending, history, closed, ready, flines, threads, pc, blk,
                 parts, line, isStopped, clines, ret, calls, written, evicted,
                 opsLeft, bytesLeft, closesDone>>
  /\ UNCHANGED evars

\* line 191: the outer select takes the token of b.ready
start_ready ==
  /\ ~Crashed /\ fpc = "select" /\ ready = 1
  /\ ready' = 0
  /\ fpc' = "after"
  /\ UNCHANGED <<limit, num, size, pending, history, closed, flines, threads, pc, blk,
                 parts, line, isStopped, clines, ret, calls, written, evicted,
                 opsLeft, bytesLeft, closesDone>>
  /\ UNCHANGED evars

\* line 192-194: the inner select takes the closed b.close: return
start_after_closed ==
  /\ ~Crashed /\ fpc = "after" /\ closed
  /\ fpc' = "done"
  /\ UNCHANGED <<limit, num, size, pending, history, closed, ready, flines, threads, pc, blk,
                 parts, line, isStopped, clines, ret, calls, written, evicted,
                 opsLeft, bytesLeft, closesDone>>
  /\ UNCHANGED evars

\* line 195-200: the interval has passed, the inner select takes the timer
start_after_timer ==
  /\ ~Crashed /\ fpc = "after"
  /\ fpc' = "flush"
  /\ UNCHANGED <<limit, num, size, pending, history, closed, ready, flines, threads, pc, blk,
                 parts, line, isStopped, clines, ret, calls, written, evicted,
                 opsLeft, bytesLeft, closesDone>>
  /\ UNCHANGED evars

\* line 200, 146-149: flush's locked section: copy and clear the pending batch
start_flush ==
  /\ ~Crashed /\ fpc = "flush"
  /\ flines' = pending
  /\ pending' = <<>>
  /\ fpc' = "batch"
  /\ UNCHANGED <<limit, num, size, history, closed, ready, threads, pc, blk,
                 parts, line, isStopped, clines, ret, calls, written, evicted,
                 opsLeft, bytesLeft, closesDone>>
  /\ UNCHANGED evars

\* line 150-154: flush's Batch call, skipped when there are no lines; loop
start_batch ==
  /\ ~Crashed /\ fpc = "batch"
  /\ calls' = IF flines = <<>> THEN calls
              ELSE Append(calls, [op |-> "Batch", by |-> "start", lines |-> flines])
  /\ flines' = <<>>
  /\ fpc' = "select"
  /\ UNCHANGED <<limit, num, size, pending, history, closed, ready, threads, pc, blk,
                 parts, line, isStopped, clines, ret, written, evicted,
                 opsLeft, bytesLeft, closesDone>>
  /\ UNCHANGED evars

\* ------------------------------------------------------------ Engine.Setup
\* the pooled instances of a pool that are not marked in progress
Free(pool) ==
  {i \in DOMAIN instances :
     /\ "pool" \in DOMAIN instances[i] /\ instances[i]["pool"] = pool
     /\ ~("status" \in DOMAIN instances[i] /\ instances[i]["status"] = InProgress)}

\* AwsTags with the pool tag left out
AwsTags_noPool(tags, pool, usePool) ==
  LET t1 == Put(tags, "drone", "drone-runner-aws")
      t3 == Put(t1, "creator", RunnerName)
  IN IF usePool THEN Put(t3, "status", InProgress) ELSE t3

\* line 83-90: the bookkeeping tags merged into spec.Instance.Tags
AwsTags(tags, pool, usePool) ==
  LET t1 == Put(tags, "drone", "drone-runner-aws")
      t2 == Put(t1, "pool", pool)
      t3 == Put(t2, "creator", RunnerName)
  IN IF usePool THEN Put(t3, "status", InProgress) ELSE t3

\* line 51-59: the call, with its ResourceSpec
Setup_begin(s, usePool, pool, tags) ==
  /\ spc[s] = "idle"
  /\ sspec' = [sspec EXCEPT ![s] = [UsePool |-> usePool, PoolName |-> pool,
                                    Tags |-> tags, ID |-> NoId, IP |-> NoIp]]
  /\ spc' = [spc EXCEPT ![s] = IF usePool THEN "s_trypool" ELSE "s_tags"]
  /\ sret' = [sret EXCEPT ![s] = "running"]
  /\ UNCHANGED <<instances, nextId, stry, scalls, sargs>>
  /\ UNCHANGED <<wvars, dvars, rvars>>

\* TryPool that returns a free instance and leaves it unmarked
TryPool_noMark(s, pool, found, i, err) ==
  /\ found => (err = "nil" /\ i \in Free(pool))
  /\ ~found => (i = NoId /\ (err = "nil" => Free(pool) = {}))
  /\ instances' = instances
  /\ stry' = [stry EXCEPT ![s] = [called |-> TRUE, found |-> found, id |-> i,
                                  ip |-> IpOf(i), err |-> err]]

\* platform.TryPool, under the shared lock: a free instance of the pool, if there
\* is one, is marked in progress and returned; an error comes with found = FALSE
TryPool(s, pool, found, i, err) ==
  /\ found => (err = "nil" /\ i \in Free(pool))
  /\ ~found => (i = NoId /\ (err = "nil" => Free(pool) = {}))
  /\ instances' = IF found
                    THEN [instances EXCEPT ![i] = Put(instances[i], "status", InProgress)]
                    ELSE instances
  /\ stry' = [stry EXCEPT ![s] = [called |-> TRUE, found |-> found, id |-> i,
                                  ip |-> IpOf(i), err |-> err]]

\* Setup_TryPool without the return of line 76
Setup_TryPool_noReturn(s) ==
  /\ spc[s] = "s_trypool"
  /\ \E found \in BOOLEAN, i \in (DOMAIN instances) \cup {NoId},
        err \in {"nil", "pool error"} :
       /\ TryPool(s, sspec[s].PoolName, found, i, err)
       /\ scalls' = [scalls EXCEPT ![s] = Append(scalls[s], "TryPool")]
       /\ IF found
            THEN /\ sspec' = [sspec EXCEPT ![s].ID = i, ![s].IP = IpOf(i)]
                 /\ spc' = [spc EXCEPT ![s] = "s_tags"]
                 /\ UNCHANGED sret
            ELSE /\ spc' = [spc EXCEPT ![s] = "s_tags"]
                 /\ UNCHANGED <<sspec, sret>>
  /\ UNCHANGED <<nextId, sargs>>
  /\ UNCHANGED <<wvars, dvars, rvars>>

\* line 60-81: the reservation; a found instance is bound into the spec and
\* Setup returns nil, anything else falls through to the ad-hoc provisioning
Setup_TryPool(s) ==
  /\ spc[s] = "s_trypool"
  /\ \E found \in BOOLEAN, i \in (DOMAIN instances) \cup {NoId},
        err \in {"nil", "pool error"} :
       /\ TryPool(s, sspec[s].PoolName, found, i, err)
       /\ scalls' = [scalls EXCEPT ![s] = Append(scalls[s], "TryPool")]
       /\ IF found
            THEN /\ sspec' = [sspec EXCEPT ![s].ID = i, ![s].IP = IpOf(i)]
                 /\ spc' = [spc EXCEPT ![s] = "done"]
                 /\ sret' = [sret EXCEPT ![s] = "nil"]
            ELSE /\ spc' = [spc EXCEPT ![s] = "s_tags"]
                 /\ UNCHANGED <<sspec, sret>>
  /\ UNCHANGED <<nextId, sargs>>
  /\ UNCHANGED <<wvars, dvars, rvars>>

\* line 83-110: the tags, written into the spec's own map, and the ProvisionArgs
Setup_tags(s) ==
  /\ spc[s] = "s_tags"
  /\ sspec' = [sspec EXCEPT ![s].Tags =
                 AwsTags(sspec[s].Tags, sspec[s].PoolName, sspec[s].UsePool)]
  /\ spc' = [spc EXCEPT ![s] = "s_create"]
  /\ UNCHANGED <<instances, nextId, stry, scalls, sargs, sret>>
  /\ UNCHANGED <<wvars, dvars, rvars>>

\* line 112-130: platform.Create; its error ends Setup, its instance is bound
Setup_Create(s) ==
  /\ spc[s] = "s_create"
  /\ scalls' = [scalls EXCEPT ![s] = Append(scalls[s], "Create")]
  /\ sargs' = [sargs EXCEPT ![s] = sspec[s].Tags]
  /\ \E ok \in BOOLEAN :
       IF ok /\ nextId <= MaxInstances
         THEN /\ instances' = [i \in (DOMAIN instances) \cup {nextId} |->
                                 IF i = nextId THEN sspec[s].Tags ELSE instances[i]]
              /\ nextId' = nextId + 1
              /\ sspec' = [sspec EXCEPT ![s].ID = nextId, ![s].IP = IpOf(nextId)]
              /\ spc' = [spc EXCEPT ![s] = "s_dial"]
              /\ UNCHANGED sret
         ELSE /\ spc' = [spc EXCEPT ![s] = "done"]
              /\ sret' = [sret EXCEPT ![s] = "create error"]
              /\ UNCHANGED <<instances, nextId, sspec>>
  /\ UNCHANGED stry
  /\ UNCHANGED <<wvars, dvars, rvars>>

\* one call of Setup after the instance exists: its error ends Setup
SetupCall(s, here, call, next) ==
  /\ spc[s] = here
  /\ scalls' = [scalls EXCEPT ![s] = Append(scalls[s], call)]
  /\ \E ok \in BOOLEAN :
       IF ok
         THEN /\ spc' = [spc EXCEPT ![s] = next]
              /\ sret' = IF next = "done" THEN [sret EXCEPT ![s] = "nil"] ELSE sret
         ELSE /\ spc' = [spc EXCEPT ![s] = "done"]
              /\ sret' = [sret EXCEPT ![s] = call \o " error"]
  /\ UNCHANGED <<instances, nextId, sspec, stry, sargs>>
  /\ UNCHANGED <<wvars, dvars, rvars>>

\* line 133-147: ssh.DialRetry
Setup_DialRetry(s) == SetupCall(s, "s_dial", "DialRetry", "s_sftp")

\* line 154-165: sftp.NewClient
Setup_sftp(s) == SetupCall(s, "s_sftp", "sftp.NewClient", "s_root")

\* line 168-175: mkdir of the workspace root
Setup_mkdirRoot(s) == SetupCall(s, "s_root", "mkdir root", "s_dirs")

\* line 178-190: mkdir of the directories of spec.Files
Setup_mkdirFiles(s) == SetupCall(s, "s_dirs", "mkdir files", "s_files")

\* line 195-206: upload of the files of spec.Files
Setup_upload(s) == SetupCall(s, "s_files", "upload", "s_volumes")

\* line 208-219: mkdir for the temporary volumes
Setup_mkdirVolumes(s) == SetupCall(s, "s_volumes", "mkdir volumes", "s_session")

\* line 221-230: client.NewSession
Setup_NewSession(s) == SetupCall(s, "s_session", "NewSession", "s_network")

\* line 232-252: the sleep, the docker network command, return nil
Setup_network(s) == SetupCall(s, "s_network", "session.Run", "done")

\* ---------------------------------------------------------- Engine.Destroy
\* the Setup call that Destroy makes at line 293
Replenisher == 2

\* platform.PoolCountFree, under the shared lock: the number of instances of the
\* pool that are not marked in progress; an error comes with the count 0
PoolCountFree(pool, n, err) ==
  IF err = "nil" THEN n = Cardinality(Free(pool)) ELSE n = 0

\* the comparison of line 292 that always asks for a replacement
BelowPoolSize_always(poolCount, poolSize) == TRUE

\* line 292: poolCount < e.opts.Pools[spec.PoolName].PoolSize
BelowPoolSize(poolCount, poolSize) == poolCount < poolSize

\* line 256-271: the call, with the spec a Setup call has bound to an instance
Destroy_begin(s) ==
  /\ dpc = "idle" /\ s # Replenisher
  /\ spc[s] = "done" /\ sspec[s].ID # NoId
  /\ dspec' = sspec[s]
  /\ dpc' = "d_destroy"
  /\ UNCHANGED <<pools, dcount, dcalls, dret>>
  /\ UNCHANGED <<instances, nextId, spc, sspec, stry, scalls, sargs, sret>>
  /\ UNCHANGED <<wvars, rvars>>

\* line 272-282: platform.Destroy; its error is returned; after it, only a
\* pool-backed spec goes on
Destroy_platform ==
  /\ dpc = "d_destroy"
  /\ dcalls' = Append(dcalls, [op |-> "Destroy", spec |-> dspec])
  /\ \E ok \in BOOLEAN :
       IF ok
         THEN /\ instances' = [i \in (DOMAIN instances) \ {dspec.ID} |-> instances[i]]
              /\ IF dspec.UsePool
                   THEN dpc' = "d_count" /\ UNCHANGED dret
                   ELSE dpc' = "done" /\ dret' = "nil"
         ELSE /\ dpc' = "done" /\ dret' = "destroy error"
              /\ UNCHANGED instances
  /\ UNCHANGED <<pools, dspec, dcount>>
  /\ UNCHANGED <<nextId, spc, sspec, stry, scalls, sargs, sret>>
  /\ UNCHANGED <<wvars, rvars>>

\* line 283-292: the free count, its error only logged, and the comparison with
\* the pool's size; line 308 when the pool is not below its size
Destroy_PoolCountFree ==
  /\ dpc = "d_count"
  /\ dcalls' = Append(dcalls, [op |-> "PoolCountFree", spec |-> dspec])
  /\ \E n \in 0..Cardinality(DOMAIN instances), err \in {"nil", "count error"} :
       /\ PoolCountFree(dspec.PoolName, n, err)
       /\ dcount' = [called |-> TRUE, n |-> n, err |-> err]
       /\ IF BelowPoolSize(n, pools[dspec.PoolName].PoolSize)
            THEN dpc' = "d_setup" /\ UNCHANGED dret
            ELSE dpc' = "done" /\ dret' = "nil"
  /\ UNCHANGED <<pools, dspec>>
  /\ UNCHANGED <<instances, nextId, spc, sspec, stry, scalls, sargs, sret>>
  /\ UNCHANGED <<wvars, rvars>>

\* Destroy_return that hands on the error of its Setup call
Destroy_return_propagates ==
  /\ dpc = "d_wait" /\ spc[Replenisher] = "done"
  /\ dpc' = "done"
  /\ dret' = sret[Replenisher]
  /\ UNCHANGED <<pools, dspec, dcount, dcalls>>
  /\ UNCHANGED <<instances, nextId, spc, sspec, stry, scalls, sargs, sret>>
  /\ UNCHANGED <<wvars, rvars>>

\* line 293: e.Setup is called with the InstanceSpec of the pool
Destroy_Setup ==
  /\ dpc = "d_setup" /\ spc[Replenisher] = "idle"
  /\ LET tpl == pools[dspec.PoolName].InstanceSpec
     IN /\ sspec' = [sspec EXCEPT ![Replenisher] = tpl]
        /\ spc' = [spc EXCEPT ![Replenisher] =
                     IF tpl.UsePool THEN "s_trypool" ELSE "s_tags"]
        /\ dcalls' = Append(dcalls, [op |-> "Setup", spec |-> tpl])
  /\ sret' = [sret EXCEPT ![Replenisher] = "running"]
  /\ dpc' = "d_wait"
  /\ UNCHANGED <<pools, dspec, dcount, dret>>
  /\ UNCHANGED <<instances, nextId, stry, scalls, sargs>>
  /\ UNCHANGED <<wvars, rvars>>

\* line 294-308: the Setup call has returned, its error is only logged
Destroy_return ==
  /\ dpc = "d_wait" /\ spc[Replenisher] = "done"
  /\ dpc' = "done"
  /\ dret' = "nil"
  /\ UNCHANGED <<pools, dspec, dcount, dcalls>>
  /\ UNCHANGED <<instances, nextId, spc, sspec, stry, scalls, sargs, sret>>
  /\ UNCHANGED <<wvars, rvars>>

\* -------------------------------------------------------------- Engine.Run
\* the state of line 400-410 with the two assignments of the exit code swapped
ExitState_255last(err) ==
  LET s0 == [ExitCode |-> 0, Exited |-> TRUE, OOMKilled |-> FALSE]
      s1 == IF err.kind = "exit" THEN [s0 EXCEPT !.ExitCode = err.code] ELSE s0
  IN IF err # NoErr THEN [s1 EXCEPT !.ExitCode = 255] ELSE s1

\* line 400-410: the State of a command that has returned err
ExitState(err) ==
  LET s0 == [ExitCode |-> 0, Exited |-> TRUE, OOMKilled |-> FALSE]
      s1 == IF err # NoErr THEN [s0 EXCEPT !.ExitCode = 255] ELSE s0
  IN IF err.kind = "exit" THEN [s1 EXCEPT !.ExitCode = err.code] ELSE s1

\* the caller cancels ctx, at any time
Cancel ==
  /\ ~ctxDone
  /\ ctxDone' = TRUE
  /\ UNCHANGED <<rpc, rfiles, rvia, rstate, rerr, gpc, gerr, signals>>
  /\ UNCHANGED <<instances, nextId, spc, sspec, stry, scalls, sargs, sret>>
  /\ UNCHANGED <<wvars, dvars>>

\* line 311-313: the call
Run_begin ==
  /\ rpc = "idle"
  /\ rpc' = "r_dial"
  /\ UNCHANGED <<rfiles, rvia, rstate, rerr, gpc, gerr, ctxDone, signals>>
  /\ UNCHANGED <<instances, nextId, spc, sspec, stry, scalls, sargs, sret>>
  /\ UNCHANGED <<wvars, dvars>>

\* one call of Run before the command is started: its error is returned with
\* a nil State
RunCall(here, call, next) ==
  /\ rpc = here
  /\ \E ok \in BOOLEAN :
       IF ok
         THEN /\ rpc' = next
              /\ UNCHANGED <<rvia, rstate, rerr>>
         ELSE /\ rpc' = "done"
              /\ rvia' = [rvia EXCEPT !.branch = "early"]
              /\ rstate' = NilState
              /\ rerr' = CallErr(call)
  /\ UNCHANGED <<gpc, gerr, ctxDone, signals>>
  /\ UNCHANGED <<instances, nextId, spc, sspec, stry, scalls, sargs, sret>>
  /\ UNCHANGED <<wvars, dvars>>

\* line 315-329: ssh.Dial
Run_Dial == RunCall("r_dial", "ssh.Dial", "r_sftp") /\ UNCHANGED rfiles

\* line 331-340: sftp.NewClient
Run_sftp == RunCall("r_sftp", "sftp.NewClient", "r_upload") /\ UNCHANGED rfiles

\* line 345-360: the upload of one file of step.Files
Run_upload ==
  /\ rfiles > 0
  /\ RunCall("r_upload", "upload", "r_upload")
  /\ rfiles' = rfiles - 1

\* line 362-378: after the last file, client.NewSession and the binding of
\* Stdout and Stderr to output
Run_NewSession ==
  /\ rfiles = 0
  /\ RunCall("r_upload", "NewSession", "r_go")
  /\ UNCHANGED rfiles

\* line 380-383: the channel done, without buffer, and the goroutine
Run_go ==
  /\ rpc = "r_go"
  /\ rpc' = "r_select"
  /\ gpc' = "run"
  /\ UNCHANGED <<rfiles, rvia, rstate, rerr, gerr, ctxDone, signals>>
  /\ UNCHANGED <<instances, nextId, spc, sspec, stry, scalls, sargs, sret>>
  /\ UNCHANGED <<wvars, dvars>>

\* line 382, in the goroutine: session.Run(cmd) returns; the goroutine is at
\* its send on done
session_Run ==
  /\ gpc = "run"
  /\ \E e \in {NoErr, OtherErr} \cup {ExitError(c) : c \in ExitCodes} : gerr' = e
  /\ gpc' = "send"
  /\ UNCHANGED <<rpc, rfiles, rvia, rstate, rerr, ctxDone, signals>>
  /\ UNCHANGED <<instances, nextId, spc, sspec, stry, scalls, sargs, sret>>
  /\ UNCHANGED <<wvars, dvars>>

\* line 385-386: the select receives from done, which lets the goroutine's
\* send complete
Run_select_done ==
  /\ rpc = "r_select" /\ gpc = "send"
  /\ gpc' = "end"
  /\ rvia' = [branch |-> "done", cancelled |-> ctxDone, returned |-> TRUE]
  /\ rerr' = gerr
  /\ rpc' = "r_state"
  /\ UNCHANGED <<rfiles, rstate, gerr, ctxDone, signals>>
  /\ UNCHANGED <<instances, nextId, spc, sspec, stry, scalls, sargs, sret>>
  /\ UNCHANGED <<wvars, dvars>>

\* Run_return that returns a nil error with the State
Run_return_nilErr ==
  /\ rpc = "r_state"
  /\ rstate' = ExitState(rerr)
  /\ rerr' = NoErr
  /\ rpc' = "done"
  /\ UNCHANGED <<rfiles, rvia, gpc, gerr, ctxDone, signals>>
  /\ UNCHANGED <<instances, nextId, spc, sspec, stry, scalls, sargs, sret>>
  /\ UNCHANGED <<wvars, dvars>>

\* line 400-414: the State of the command, returned with the command's error
Run_return ==
  /\ rpc = "r_state"
  /\ rstate' = ExitState(rerr)
  /\ rpc' = "done"
  /\ UNCHANGED <<rfiles, rvia, rerr, gpc, gerr, ctxDone, signals>>
  /\ UNCHANGED <<instances, nextId, spc, sspec, stry, scalls, sargs, sret>>
  /\ UNCHANGED <<wvars, dvars>>

\* line 387: the select takes ctx.Done(); nothing is received from done
Run_select_cancel ==
  /\ rpc = "r_select" /\ ctxDone
  /\ rvia' = [branch |-> "cancel", cancelled |-> TRUE, returned |-> (gpc = "send")]
  /\ rpc' = "r_signal"
  /\ UNCHANGED <<rfiles, rstate, rerr, gpc, gerr, ctxDone, signals>>
  /\ UNCHANGED <<instances, nextId, spc, sspec, stry, scalls, sargs, sret>>
  /\ UNCHANGED <<wvars, dvars>>

\* Run_Signal that returns the State of a failed command
Run_Signal_state ==
  /\ rpc = "r_signal"
  /\ \E e \in {"nil", "signal error"} : signals' = Append(signals, e)
  /\ rstate' = ExitState(CtxErr)
  /\ rerr' = CtxErr
  /\ rpc' = "done"
  /\ UNCHANGED <<rfiles, rvia, gpc, gerr, ctxDone>>
  /\ UNCHANGED <<instances, nextId, spc, sspec, stry, scalls, sargs, sret>>
  /\ UNCHANGED <<wvars, dvars>>

\* line 388-397: one session.Signal, its error only logged, and the return of
\* nil and ctx.Err()
Run_Signal ==
  /\ rpc = "r_signal"
  /\ \E e \in {"nil", "signal error"} : signals' = Append(signals, e)
  /\ rstate' = NilState
  /\ rerr' = CtxErr
  /\ rpc' = "done"
  /\ UNCHANGED <<rfiles, rvia, gpc, gerr, ctxDone>>
  /\ UNCHANGED <<instances, nextId, spc, sspec, stry, scalls, sargs, sret>>
  /\ UNCHANGED <<wvars, dvars>>

\* ---------------------------------------------------------- specifications
NextEngine ==
  \/ \E s \in Setups, usePool \in BOOLEAN, pool \in PoolNames, tags \in UserTags :
       Setup_begin(s, usePool, pool, tags)
  \/ \E s \in Setups : Setup_TryPool(s)
  \/ \E s \in Setups : Setup_tags(s)
  \/ \E s \in Setups : Setup_Create(s)
  \/ \E s \in Setups : Setup_DialRetry(s)
  \/ \E s \in Setups : Setup_sftp(s)
  \/ \E s \in Setups : Setup_mkdirRoot(s)
  \/ \E s \in Setups : Setup_mkdirFiles(s)
  \/ \E s \in Setups : Setup_upload(s)
  \/ \E s \in Setups : Setup_mkdirVolumes(s)
  \/ \E s \in Setups : Setup_NewSession(s)
  \/ \E s \in Setups : Setup_network(s)

\* the Setup calls of the Engine, run concurrently
SpecEngine == InitEngine /\ [][NextEngine]_vars

NextDestroy ==
  \/ \E s \in Setups \ {Replenisher}, usePool \in BOOLEAN, pool \in PoolNames,
        tags \in UserTags :
       Setup_begin(s, usePool, pool, tags)
  \/ \E s \in Setups : Setup_TryPool(s)
  \/ \E s \in Setups : Setup_tags(s)
  \/ \E s \in Setups : Setup_Create(s)
  \/ \E s \in Setups : Setup_DialRetry(s)
  \/ \E s \in Setups : Setup_sftp(s)
  \/ \E s \in Setups : Setup_mkdirRoot(s)
  \/ \E s \in Setups : Setup_mkdirFiles(s)
  \/ \E s \in Setups : Setup_upload(s)
  \/ \E s \in Setups : Setup_mkdirVolumes(s)
  \/ \E s \in Setups : Setup_NewSession(s)
  \/ \E s \in Setups : Setup_network(s)
  \/ \E s \in Setups : Destroy_begin(s)
  \/ Destroy_platform
  \/ Destroy_PoolCountFree
  \/ Destroy_Setup
  \/ Destroy_return

\* one Setup call, then Destroy of its spec, with the Setup call Destroy makes
SpecDestroy == InitDestroy /\ [][NextDestroy]_vars

NextRun ==
  \/ Cancel
  \/ Run_begin
  \/ Run_Dial
  \/ Run_sftp
  \/ Run_upload
  \/ Run_NewSession
  \/ Run_go
  \/ session_Run
  \/ Run_select_done
  \/ Run_return
  \/ Run_select_cancel
  \/ Run_Signal

\* one Run call, its goroutine, and the caller who may cancel
SpecRun == InitRun /\ [][NextRun]_vars

Next ==
  \/ \E t \in threads, p \in Blocks : Write_begin(t, p)
  \/ \E t \in threads : Write_line(t)
  \/ \E t \in threads : Write_evict(t)
  \/ \E t \in threads : Write_size(t)
  \/ \E t \in threads : Write_stopped(t)
  \/ \E t \in threads : Write_pending(t)
  \/ \E t \in threads : Write_history(t)
  \/ \E t \in threads : Write_ready(t)
  \/ \E t \in threads : Close_stop(t)
  \/ \E t \in threads : Close_flush(t)
  \/ \E t \in threads : Close_batch(t)
  \/ \E t \in threads : Close_upload(t)
  \/ \E t \in threads : Close_close(t)
  \/ start_closed
  \/ start_ready
  \/ start_after_closed
  \/ start_after_timer
  \/ start_flush
  \/ start_batch

\* the callers only write
NextWrite ==
  \/ \E t \in threads, p \in Blocks : Write_begin(t, p)
  \/ \E t \in threads : Write_line(t)
  \/ \E t \in threads : Write_evict(t)
  \/ \E t \in threads : Write_size(t)
  \/ \E t \in threads : Write_stopped(t)
  \/ \E t \in threads : Write_pending(t)
  \/ \E t \in threads : Write_history(t)
  \/ \E t \in threads : Write_ready(t)
  \/ start_closed
  \/ start_ready
  \/ start_after_closed
  \/ start_after_timer
  \/ start_flush
  \/ start_batch

\* the steps of a Writer that is never stopped: no eviction, no Close
NextSplit ==
  \/ \E t \in threads, p \in Blocks : Write_begin(t, p)
  \/ \E t \in threads : Write_line(t)
  \/ \E t \in threads : Write_size(t)
  \/ \E t \in threads : Write_stopped(t)
  \/ \E t \in threads : Write_pending(t)
  \/ \E t \in threads : Write_history(t)
  \/ \E t \in threads : Write_ready(t)
  \/ start_ready
  \/ start_after_timer
  \/ start_flush
  \/ start_batch

\* one caller goroutine and goroutine start
Spec == Init /\ [][Next]_vars

\* the steps of goroutine start
start ==
  \/ start_closed
  \/ start_ready
  \/ start_after_closed
  \/ start_after_timer
  \/ start_flush
  \/ start_batch

\* the steps of a Write call that is under way
WriteRest(t) ==
  \/ Write_line(t)
  \/ Write_evict(t)
  \/ Write_size(t)
  \/ Write_stopped(t)
  \/ Write_pending(t)
  \/ Write_history(t)
  \/ Write_ready(t)

\* one caller goroutine and goroutine start: goroutine start is scheduled and
\* its timer fires, a Write call that is under way goes on, and no caller has
\* to make another call
SpecLive == InitLive /\ [][Next]_vars /\ WF_vars(start) /\ WF_vars(WriteRest(1))

\* two caller goroutines that write, and goroutine start
SpecConc == InitConc /\ [][NextWrite]_vars

\* one Write call on a new Writer with the default limit
SpecSplit == InitSplit /\ [][NextSplit]_vars

\* ------------------------------------------------------------ properties
\* the Upload calls the log service has received, in order
Uploads == SelectSeq(calls, LAMBDA c : c.op = "Upload")

\* the client.Close calls the log service has received
ChanCloses == SelectSeq(calls, LAMBDA c : c.op = "Close")

\* the lines of a list carry strictly increasing numbers
IsIncreasing(ls) == \A i, j \in 1..Len(ls) : i < j => ls[i].Number < ls[j].Number

\* the lines written and not evicted, in the order they were written
Retained == SubSeq(written, Len(evicted) + 1, Len(written))

\* the messages of a list of lines, joined
RECURSIVE Join(_)
Join(ls) == IF ls = <<>> THEN <<>> ELSE Head(ls).Message \o Join(Tail(ls))

\* the line feeds of a block
CountNL(s) == Cardinality({i \in 1..Len(s) : s[i] = NL})

\* no Write call is between its update of b.size and its append to b.history
NoAppendDue == \A t \in threads : pc[t] \notin {"w_stopped", "w_pending", "w_history"}

\* C1 (as amended): each Close call makes exactly one Upload call, and the history
\* it uploads is, in sequence-number order, every record written so far except
\* the records the eviction loop dropped (the oldest ones); records written
\* after the last Batch flush are part of it.
C1_UploadsRetained ==
  \A t \in threads :
    /\ pc[t] = "idle" => Len(Uploads) = closesDone
    /\ pc[t] = "c_close" =>
         /\ Len(Uploads) = closesDone + 1
         /\ Uploads[Len(Uploads)].lines = Retained
         /\ IsIncreasing(Uploads[Len(Uploads)].lines)

\* C1 witness: Close has uploaded after an eviction and after a Batch flush,
\* with a record written after that flush
C1_Witness ==
  /\ pc[1] = "c_close"
  /\ evicted # <<>>
  /\ history # <<>>
  /\ \E i \in 1..Len(calls) :
       /\ calls[i].op = "Batch"
       /\ \E k \in 1..Len(history) :
            \A j \in 1..Len(calls[i].lines) : calls[i].lines[j].Number < history[k].Number

\* C1 (as stated): Close makes exactly one Upload call and the uploaded history
\* contains every record that was ever written, evicted records included.
C1_UploadsEverything ==
  \A t \in threads :
    pc[t] = "c_close" =>
      /\ Len(Uploads) = closesDone + 1
      /\ Uploads[Len(Uploads)].lines = written

\* C2: after Close was called twice, Upload and the log channel's Close have each
\* been called exactly once in total.
C2_CloseIdempotent ==
  closesDone = 2 => Len(Uploads) = 1 /\ Len(ChanCloses) = 1

\* C3: no Batch call reaches the log service after Close's Upload call or
\* channel-close call.
C3_NoBatchAfterClose ==
  \A i, j \in 1..Len(calls) :
    (i < j /\ calls[i].op \in {"Upload", "Close"}) => calls[j].op # "Batch"

\* C4: the message lengths of the records in the pending batch sum to at most
\* the byte limit, in every reachable state.
C4_PendingWithinLimit == SumLen(pending) <= limit

\* C4 witness: the writes have passed the limit together while the pending batch
\* holds as many bytes as the limit allows
C4_Witness == SumLen(written) > limit /\ SumLen(pending) = limit /\ evicted # <<>>

\* C5: the tracked size never exceeds the byte limit; outside a Write's window
\* between its size update and its history append the size is the sum of the
\* message lengths of the history, and the history is what was written without
\* the evicted records, which are the oldest ones.
C5_SizeTracksHistory ==
  /\ size <= limit
  /\ NoAppendDue => (size = SumLen(history) /\ evicted \o history = written)

\* C5 witness: a Write has evicted records and the history holds records again
C5_Witness == pc[1] = "idle" /\ evicted # <<>> /\ history # <<>> /\ size = limit

\* C6: Write never aborts, and a Write that returned has returned (len(p), nil).
C6_WriteAlwaysReturns ==
  \A t \in threads :
    /\ pc[t] # "panic"
    /\ ret[t].op = "Write" => ret[t].err = "nil"

\* C7: one Write of a block with two line breaks, the block ending with the
\* second, makes exactly two records with consecutive numbers, each message
\* ending with its line feed, the two joined being the block.
C7_TwoRecords ==
  \A t \in threads :
    (/\ pc[t] = "w_ready"
     /\ CountNL(blk[t]) = 2
     /\ blk[t][Len(blk[t])] = NL)
    => /\ Len(written) = 2
       /\ written[2].Number = written[1].Number + 1
       /\ \A i \in 1..2 : written[i].Message[Len(written[i].Message)] = NL
       /\ Join(written) = blk[t]

\* C8: the records of the history carry strictly increasing sequence numbers,
\* also when several goroutines call Write concurrently.
C8_NumbersIncrease == IsIncreasing(history)

\* the Create calls a Setup call has made
Creates(s) == SelectSeq(scalls[s], LAMBDA c : c = "Create")

\* the Setup call went the ad-hoc way: no pool, or a reservation that found nothing
AdHoc(s) == ~sspec[s].UsePool \/ (stry[s].called /\ ~stry[s].found)

\* C9: a pool-backed Setup whose reservation found a free instance has bound the
\* reserved id and ip into the spec and returned nil, and has called nothing
\* but TryPool: no Create, no connection, staging or network step.
C9_PoolHitNoCreate ==
  \A s \in Setups :
    (sspec[s].UsePool /\ stry[s].found) =>
      /\ spc[s] = "done" /\ sret[s] = "nil"
      /\ sspec[s].ID = stry[s].id /\ sspec[s].IP = stry[s].ip
      /\ stry[s].id # NoId
      /\ scalls[s] = <<"TryPool">>

\* C9 witness: a pool-backed Setup has reserved a free instance
C9_Witness ==
  \E s \in Setups : sspec[s].UsePool /\ stry[s].found /\ spc[s] = "done"

\* C10: an ad-hoc Setup calls Create at most once, and exactly once by the time it
\* is past the Create step; the tags passed hold the runner's name as creator
\* and the pool name, and the in-progress marker when the Setup is pool-backed.
C10_AdHocCreatesOnce ==
  \A s \in Setups :
    /\ Len(Creates(s)) <= 1
    /\ (AdHoc(s) /\ spc[s] \notin {"idle", "s_trypool", "s_tags", "s_create"}) =>
         /\ Len(Creates(s)) = 1
         /\ {"creator", "pool"} \subseteq DOMAIN sargs[s]
         /\ sargs[s]["creator"] = RunnerName
         /\ sargs[s]["pool"] = sspec[s].PoolName
         /\ sspec[s].UsePool =>
              ("status" \in DOMAIN sargs[s] /\ sargs[s]["status"] = InProgress)

\* C10 witness: a pool-backed Setup found no free instance (or met a reservation
\* error), another was not pool-backed, and both have called Create
C10_Witness ==
  \E s, r \in Setups :
    /\ sspec[s].UsePool /\ stry[s].called /\ ~stry[s].found /\ stry[s].err # "nil"
    /\ spc[s] = "done" /\ Len(Creates(s)) = 1
    /\ ~sspec[r].UsePool /\ spc[r] = "done" /\ Len(Creates(r)) = 1

\* the Setup calls whose reservation found a free instance
Reserved == {s \in Setups : stry[s].called /\ stry[s].found}

DestroyCalls(op) == SelectSeq(dcalls, LAMBDA c : c.op = op)

\* platform.Destroy has returned without error
DestroyOk == dpc # "d_destroy" /\ DestroyCalls("Destroy") # <<>> /\ dret # "destroy error"

\* C12: when Destroy of a pool-backed spec has returned and its destroy call
\* succeeded, it has called Setup exactly once, with the InstanceSpec of the
\* pool, if the free count it read was below the pool's size, and not at all
\* if it was not; when the destroy call failed it has returned that error and
\* has called neither PoolCountFree nor Setup. Destroy never calls Setup twice.
C12_ReplenishOnce ==
  /\ Len(DestroyCalls("Setup")) <= 1
  /\ (dpc = "done" /\ dspec.UsePool /\ DestroyOk) =>
       /\ Len(DestroyCalls("PoolCountFree")) = 1
       /\ IF dcount.n < pools[dspec.PoolName].PoolSize
            THEN /\ Len(DestroyCalls("Setup")) = 1
                 /\ DestroyCalls("Setup")[1].spec = pools[dspec.PoolName].InstanceSpec
                 /\ spc[Replenisher] = "done"
            ELSE /\ DestroyCalls("Setup") = <<>>
                 /\ spc[Replenisher] = "idle"
  /\ (dpc = "done" /\ ~DestroyOk) =>
       /\ dret = "destroy error"
       /\ Len(dcalls) = 1
       /\ spc[Replenisher] = "idle"

\* C12 witness: the free count was read without error and was below the pool's
\* size, and the Setup call Destroy made has created an instance
C12_Witness ==
  /\ dpc = "done" /\ dspec.UsePool /\ DestroyOk
  /\ dcount.err = "nil" /\ dcount.n < pools[dspec.PoolName].PoolSize
  /\ Len(Creates(Replenisher)) = 1 /\ sret[Replenisher] = "nil"

\* C17: a Destroy call whose destroy call succeeded returns nil, whether or not
\* PoolCountFree failed, a replacement was asked for, or the Setup call for it
\* failed at any step; Destroy returns an error only when its destroy call
\* failed.
C17_DestroyReturnsNil ==
  dpc = "done" =>
    /\ DestroyOk => dret = "nil"
    /\ dret # "nil" =>
         (dret = "destroy error" /\ Len(dcalls) = 1 /\ dcalls[1].op = "Destroy")

\* C17 witness: Destroy has returned nil after PoolCountFree failed and the
\* Setup call for the replacement failed
C17_Witness ==
  /\ dpc = "done" /\ dret = "nil"
  /\ dcount.called /\ dcount.err # "nil"
  /\ spc[Replenisher] = "done" /\ sret[Replenisher] \notin {"nil", "none", "running"}

\* C19: when Destroy has returned, the pool holds at least as many free
\* instances as PoolCountFree counted, whatever the InstanceSpec of the pool.
C19_ReplenishNeverTakes ==
  (dpc = "done" /\ dcount.called /\ dcount.err = "nil") =>
    Cardinality(Free(dspec.PoolName)) >= dcount.n

\* Run has returned from the branch of the select that received the result
RanToEnd == rpc = "done" /\ rvia.branch = "done"

\* C13: when the command completed and Run took its result, the State has
\* Exited true and OOMKilled false, and its exit code is the status of an
\* exit-status error, 255 for any other error, and 0 for no error.
C13_ExitMapping ==
  RanToEnd =>
    /\ rstate # NilState
    /\ rstate.Exited /\ ~rstate.OOMKilled
    /\ gerr.kind = "exit" => rstate.ExitCode = gerr.code
    /\ gerr.kind = "other" => rstate.ExitCode = 255
    /\ gerr.kind = "nil" => rstate.ExitCode = 0

\* C13 witness: the command has ended with exit status 17
C13_Witness == RanToEnd /\ gerr = ExitError(17) /\ rstate.ExitCode = 17

C15_ExitStatusReturned ==
  RanToEnd =>
    /\ gerr.kind = "exit" =>
         (rstate # NilState /\ rstate.ExitCode = gerr.code /\ rerr = gerr)
    /\ rerr = NoErr <=> gerr = NoErr

\* C15 witness: the command has ended with exit status 1
C15_Witness == RanToEnd /\ gerr = ExitError(1) /\ rerr.kind = "exit"

\* C15 (as stated): when the command ends with an exit-status error, Run
\* returns a State that holds the status, and a nil error.
C15_ExitStatusIsSuccess ==
  (RanToEnd /\ gerr.kind = "exit") =>
    (rstate # NilState /\ rstate.ExitCode = gerr.code /\ rerr = NoErr)

\* C20: after Run has returned, the goroutine that ran the command is not
\* at its send on done, where no one receives any more.
C20_GoroutineEnds == ~(rpc = "done" /\ gpc = "send")

\* C16: when a Close call has returned, the pending batch is empty: every
\* record a Write appended to it has been taken out by a flush for its Batch
\* call, also when a Write's eviction had stopped the writer before.
C16_CloseFlushesPending == closesDone >= 1 => pending = <<>>

\* the sequence numbers a record can carry
RecordNumbers == 0..(MaxLiveOps + MaxLiveBytes)

\* the record with number n is in the pending batch
InPending(n) == \E i \in 1..Len(pending) : pending[i].Number = n

\* the record with number n has been passed to a Batch call of goroutine start
BatchedByStart(n) ==
  \E i \in 1..Len(calls) :
    /\ calls[i].op = "Batch" /\ calls[i].by = "start"
    /\ \E j \in 1..Len(calls[i].lines) : calls[i].lines[j].Number = n

\* C18: with goroutine start scheduled fairly and its timer firing, every
\* record that is in the pending batch is later passed to a Batch call of
\* goroutine start, unless the writer is stopped or closed first; no further
\* Write or Close call is needed for it, although the sends on b.ready of
\* several Write calls coalesce into one.
C18_NoLostWakeup ==
  \A n \in RecordNumbers : InPending(n) ~> (BatchedByStart(n) \/ closed)

\* C18 witness: the writer is not stopped, two records were written, and
\* goroutine start has passed both to the one Batch call it has made
C18_Witness ==
  /\ ~closed /\ Len(written) >= 2
  /\ Len(calls) = 1 /\ calls[1].op = "Batch" /\ calls[1].by = "start"
  /\ calls[1].lines = written

====
